---- MODULE Spec2Model ----
EXTENDS Integers, Sequences, FiniteSets, TLC

(***************************************************************************)
(* Model of the price pipeline of booking-scrapperG/finalapp.py:           *)
(* scrape_hotels (the fetcher), parse_hotel_prices (the normalizer),       *)
(* process_hostel_data (selector, expander and aggregator) and the scrape  *)
(* handler of main.                                                        *)
(*                                                                         *)
(* Numbers.  A float is modelled by an exact rational [num, den] in euros  *)
(* (den > 0); NaN is the record with den = 0.  A value written to a row    *)
(* through round(x, 2) is an integer number of hundredths.  round is the   *)
(* rounding of numpy.float64 (to the nearest hundredth, a tie to the even  *)
(* one).  The binary representation error of float64 is not modelled.      *)
(*                                                                         *)
(* Strings.  A formatted price is a sequence of characters, so that the    *)
(* regular expression of parse_hotel_prices is computed, not assumed.      *)
(* A date is a day number; a Python dict is a function whose DOMAIN is the *)
(* set of its keys; selected_date = None is the empty set, a date d is {d}.*)
(*                                                                         *)
(* The blocks of 2 adults and of 1 adult of process_hostel_data are the    *)
(* same text up to the occupancy count, and so are the branches of         *)
(* 'Compartido' and 'Híbrido'; each is one operator with the count n as a  *)
(* parameter.                                                              *)
(*                                                                         *)
(* Spec runs process_hostel_data on a batch of hotels with canned price    *)
(* lists; SpecSingle runs it on one hotel with any price list.  SpecMain   *)
(* is one click on the scrape button of main: the coroutines of            *)
(* scrape_hotels fetch the hotels concurrently, gather joins them, and     *)
(* process_hostel_data runs as one call on what they returned.  SpecDates  *)
(* is the same click for one hotel and any choice of dates in the sidebar. *)
(*                                                                         *)
(* Exceptions.  scrape_hostel catches every exception of its own fetch.    *)
(* process_hostel_data catches none: a calendar whose records have no      *)
(* 'avgPriceFormatted' gives a DataFrame without the column 'price', and   *)
(* df['price'] raises KeyError, which main catches.                        *)
(***************************************************************************)

VARIABLES hostels_data, selected_date, idx, result, results, error_hostels, pc,
          hostel_data, tasks, returned, session_state, messages,
          date_option, start_date, end_date, sidebar, requests

vars == <<hostels_data, selected_date, idx, result, results, error_hostels, pc,
          hostel_data, tasks, returned, session_state, messages,
          date_option, start_date, end_date, sidebar, requests>>

\* the date widgets of the sidebar and what the sidebar says about them;
\* start_date is main's selected_date, end_date is {} for None
datevars == <<date_option, start_date, end_date, sidebar>>

\* the state of main and of the fetch stage, which process_hostel_data does
\* not touch
mainvars == <<hostel_data, tasks, returned, session_state, messages,
              date_option, start_date, end_date, sidebar, requests>>

----------------------------------------------------------------------------
(* Bounds of the checked inputs *)

\* hotels of a batch (specification Spec)
MaxHotels == 2
\* daily records of a price list (specification SpecSingle)
MaxEntries == 2

----------------------------------------------------------------------------
(* Rational arithmetic standing for float64 *)

RECURSIVE GCD(_, _)
GCD(a, b) == IF b = 0 THEN a ELSE GCD(b, a % b)

Abs(a) == IF a < 0 THEN -a ELSE a

\* the rational n / d in lowest terms; d = 0 is NaN
Rat(n, d) ==
    IF d = 0 THEN [num |-> 0, den |-> 0]
    ELSE LET g == GCD(Abs(n), d) IN [num |-> n \div g, den |-> d \div g]

NaN == Rat(0, 0)

IsNaN(v) == v.den = 0

\* a + b
RAdd(a, b) ==
    IF IsNaN(a) \/ IsNaN(b) THEN NaN
    ELSE LET m == (a.den \div GCD(a.den, b.den)) * b.den
         IN  Rat(a.num * (m \div a.den) + b.num * (m \div b.den), m)

\* a - b
RSub(a, b) == RAdd(a, [num |-> -b.num, den |-> b.den])

\* a * b
RMul(a, b) ==
    IF IsNaN(a) \/ IsNaN(b) THEN NaN
    ELSE LET x == Rat(a.num, b.den)
             y == Rat(b.num, a.den)
         IN  Rat(x.num * y.num, x.den * y.den)

\* a / k for a count k > 0
RDivInt(a, k) == RMul(a, Rat(1, k))

\* a < b; a comparison with NaN is false
RLess(a, b) == ~IsNaN(a) /\ ~IsNaN(b) /\ a.num * b.den < b.num * a.den

\* the integer nearest to n / d (d > 0), a tie going to the even one
RoundHalfEven(n, d) ==
    LET q == n \div d
        r == n % d
    IN  IF 2 * r < d THEN q
        ELSE IF 2 * r > d THEN q + 1
        ELSE IF q % 2 = 0 THEN q ELSE q + 1

\* round(x, 2), as a number of hundredths
Round2(x) == RoundHalfEven(x.num * 100, x.den)

\* a float that is a whole number of hundredths, written without rounding
Hundredths(x) == (x.num * 100) \div x.den

----------------------------------------------------------------------------
(* Program constants of process_hostel_data *)

\* tourist tax per adult: 5.5
TouristTax == Rat(55, 10)

\* margin rate: 0.08
MarginRate == Rat(8, 100)

\* shared price derived from a private one: * 0.8
SharedRatio == Rat(8, 10)

\* private price derived from a shared one: * 1.2
PrivateRatio == Rat(12, 10)

\* the availability threshold: price > 0.01
Threshold == Rat(1, 100)

----------------------------------------------------------------------------
(* parse_hotel_prices *)

IsDigit(c) == c \in {"0", "1", "2", "3", "4", "5", "6", "7", "8", "9"}

DigitVal(c) ==
    CASE c = "0" -> 0 [] c = "1" -> 1 [] c = "2" -> 2 [] c = "3" -> 3
      [] c = "4" -> 4 [] c = "5" -> 5 [] c = "6" -> 6 [] c = "7" -> 7
      [] c = "8" -> 8 [] c = "9" -> 9

RECURSIVE DigitsEnd(_, _)
\* the index just past the run of digits of s that starts at i (\d* from i)
DigitsEnd(s, i) ==
    IF i <= Len(s) /\ IsDigit(s[i]) THEN DigitsEnd(s, i + 1) ELSE i

RECURSIVE DigitsValue(_, _, _)
\* the number written by the digits s[i .. j-1]
DigitsValue(s, i, j) ==
    IF i >= j THEN 0 ELSE DigitsValue(s, i, j - 1) * 10 + DigitVal(s[j - 1])

RECURSIVE Pow10(_)
Pow10(k) == IF k = 0 THEN 1 ELSE 10 * Pow10(k - 1)

SetMin(S) == CHOOSE x \in S : \A y \in S : x <= y

\* .str.extract(r'(\d+\.?\d*)').astype(float): the leftmost match, greedy
ExtractNumber(s) ==
    LET starts == {i \in 1..Len(s) : IsDigit(s[i])}
    IN  IF starts = {} THEN NaN
        ELSE LET b == SetMin(starts)
                 e == DigitsEnd(s, b)
                 hasDot == e <= Len(s) /\ s[e] = "."
                 f == IF hasDot THEN DigitsEnd(s, e + 1) ELSE e
                 k == IF hasDot THEN f - (e + 1) ELSE 0
                 frac == IF hasDot THEN DigitsValue(s, e + 1, f) ELSE 0
             IN  Rat(DigitsValue(s, b, e) * Pow10(k) + frac, Pow10(k))

\* pd.DataFrame(price_data).columns: the keys of the records
Columns(price_data) == UNION {DOMAIN price_data[j] : j \in 1..Len(price_data)}

\* the date of a row whose record has no 'checkin' (NaT): equal to no date
NaT == 0

\* the DataFrame of a price list: one row per daily record; the column
\* 'price' is added when some record has 'avgPriceFormatted', the column
\* 'date' when some record has 'checkin'; a row whose record lacks the key
\* holds NaN / NaT there.  An empty list gives the empty DataFrame
parse_hotel_prices(price_data) ==
    IF price_data = <<>> THEN <<>>
    ELSE LET columns == Columns(price_data)
             added == (IF "avgPriceFormatted" \in columns THEN {"price"} ELSE {})
                      \cup (IF "checkin" \in columns THEN {"date"} ELSE {})
         IN  [j \in 1..Len(price_data) |->
                [c \in columns \cup added |->
                    CASE c = "price" ->
                             IF "avgPriceFormatted" \in DOMAIN price_data[j]
                             THEN ExtractNumber(price_data[j].avgPriceFormatted)
                             ELSE NaN
                      [] c = "date" ->
                             IF "checkin" \in DOMAIN price_data[j]
                             THEN price_data[j].checkin
                             ELSE NaT
                      [] OTHER ->
                             IF c \in DOMAIN price_data[j]
                             THEN price_data[j][c]
                             ELSE NaN]]

----------------------------------------------------------------------------
(* Row fields *)

Suffix(n) == IF n = 2 THEN "2 Adultos" ELSE "1 Adulto"

\* 'Precio Hab Baño <side> <n>'
KPrecio(side, n) == "Precio Hab Baño " \o side \o " " \o Suffix(n)

\* 'Precio Hab Baño <side> <n> (Calculado)'
KCalculado(side, n) == KPrecio(side, n) \o " (Calculado)"

\* 'Precio Sin Tasa <side> <n>'
KSinTasa(side, n) == "Precio Sin Tasa " \o side \o " " \o Suffix(n)

\* 'Tasa Turística <n>'
KTasa(n) == "Tasa Turística " \o Suffix(n)

\* 'Interés 8% <side> <n>'
KInteres(side, n) == "Interés 8% " \o side \o " " \o Suffix(n)

Sides == {"Privado", "Compartido"}

Occupancies == {1, 2}

\* the keys a row can hold that start with 'Precio'
PrecioKeys ==
    UNION {{KPrecio(sd, n), KCalculado(sd, n), KSinTasa(sd, n)} :
             sd \in Sides, n \in Occupancies}

\* key.startswith('Precio')
StartsWithPrecio(key) == key \in PrecioKeys

\* d[k] = v
Set(d, k, v) == (k :> v) @@ d

\* d.get(k, default)
Get(d, k, default) == IF k \in DOMAIN d THEN d[k] ELSE default

----------------------------------------------------------------------------
(* Representative price selector *)

\* variant: the threshold itself passes (price >= 0.01)
AvailableInclusive(price) == ~IsNaN(price) /\ ~RLess(price, Threshold)

\* variant: any positive price passes (price > 0)
AvailablePositive(price) == RLess(Rat(0, 1), price)

\* price > 0.01 (false for NaN)
Available(price) == RLess(Threshold, price)

\* variant: only the rows without a number are dropped
FilterNotNaN(df) == SelectSeq(df, LAMBDA r : ~IsNaN(r.price))

\* df[df['price'] > 0.01]
FilterAvailable(df) == SelectSeq(df, LAMBDA r : Available(r.price))

\* variant: no date sub-filter
FilterDateNone(df, sel) == df

\* df[df['date'].dt.date == selected_date]
FilterDate(df, sel) == SelectSeq(df, LAMBDA r : r.date \in sel)

\* df['price'].min()
SeriesMin(df) ==
    LET i == CHOOSE i \in 1..Len(df) :
                 \A j \in 1..Len(df) : ~RLess(df[j].price, df[i].price)
    IN  df[i].price

RECURSIVE SeriesSum(_)
SeriesSum(df) ==
    IF df = <<>> THEN Rat(0, 1) ELSE RAdd(Head(df).price, SeriesSum(Tail(df)))

\* df['price'].mean()
SeriesMean(df) == RDivInt(SeriesSum(df), Len(df))

\* what the selection of one occupancy block ends in:
\*   "none"      the price list is missing or empty, or the DataFrame has
\*               no column (df.empty): the block is skipped
\*   "raise"     the DataFrame has no column 'price' (or no column 'date'
\*               when a date is selected): df['price'] raises KeyError
\*   "continue"  no entry with price > 0.01: the hotel is abandoned
\*   "nodate"    no available entry on the selected date: no price
\*   "price"     the representative price, in price
Select(hostel, key, sel) ==
    IF key \notin DOMAIN hostel \/ hostel[key] = <<>>
    THEN [kind |-> "none", price |-> NaN]
    ELSE LET df == parse_hotel_prices(hostel[key])
             available == FilterAvailable(df)
         IN  IF DOMAIN df[1] = {}
             THEN [kind |-> "none", price |-> NaN]
             ELSE IF "price" \notin DOMAIN df[1]
             THEN [kind |-> "raise", price |-> NaN]
             ELSE IF available = <<>>
             THEN [kind |-> "continue", price |-> NaN]
             ELSE IF sel # {} /\ "date" \notin DOMAIN df[1]
             THEN [kind |-> "raise", price |-> NaN]
             ELSE LET price_method == IF sel # {} THEN "min" ELSE "mean"
                      filtered == IF sel # {} THEN FilterDate(available, sel)
                                  ELSE available
                  IN  IF filtered = <<>>
                      THEN [kind |-> "nodate", price |-> NaN]
                      ELSE [kind |-> "price",
                            price |-> IF price_method = "min"
                                      THEN SeriesMin(filtered)
                                      ELSE SeriesMean(filtered)]

----------------------------------------------------------------------------
(* Pricing matrix expander *)

\* variant: the tax of one adult whatever the occupancy count
SinTasaOneAdult(x, n) == RSub(x, TouristTax)

\* variant: the price without tax never below 0
SinTasaClamped(x, n) ==
    LET d == RSub(x, RMul(TouristTax, Rat(n, 1)))
    IN  IF RLess(d, Rat(0, 1)) THEN Rat(0, 1) ELSE d

\* price - 5.5 * n
SinTasa(x, n) == RSub(x, RMul(TouristTax, Rat(n, 1)))

\* precio_sin_tasa * 0.08
Interes(sin_tasa) == RMul(sin_tasa, MarginRate)

\* precio_sin_tasa - interes
SinTasaFinal(sin_tasa) == RSub(sin_tasa, Interes(sin_tasa))

\* variant: the price is rounded first and the other fields are computed
\* from the rounded prices and the rounded margin
ExpandFromRounded(row, observed, derived, ratio, price, n) ==
    LET po == Rat(Round2(price), 100)
        pd == Rat(Round2(RMul(price, ratio)), 100)
        r1 == Set(row, KPrecio(observed, n), Round2(price))
        r2 == Set(r1, KPrecio(derived, n), Round2(RMul(price, ratio)))
        r3 == Set(r2, KCalculado(derived, n), TRUE)
        st_o == SinTasa(po, n)
        in_o == Rat(Round2(Interes(st_o)), 100)
        r4 == Set(r3, KSinTasa(observed, n), Round2(RSub(st_o, in_o)))
        r5 == Set(r4, KTasa(n), Hundredths(RMul(TouristTax, Rat(n, 1))))
        r6 == Set(r5, KInteres(observed, n), Round2(in_o))
        st_d == SinTasa(pd, n)
        in_d == Rat(Round2(Interes(st_d)), 100)
        r7 == Set(r6, KSinTasa(derived, n), Round2(RSub(st_d, in_d)))
    IN  Set(r7, KInteres(derived, n), Round2(in_d))

\* the fields of a hotel whose scraped price is that of `observed` rooms and
\* whose `derived` price is price * ratio
Expand(row, observed, derived, ratio, price, n) ==
    LET r1 == Set(row, KPrecio(observed, n), Round2(price))
        r2 == Set(r1, KPrecio(derived, n), Round2(RMul(price, ratio)))
        r3 == Set(r2, KCalculado(derived, n), TRUE)
        st_o == SinTasa(price, n)
        r4 == Set(r3, KSinTasa(observed, n), Round2(SinTasaFinal(st_o)))
        r5 == Set(r4, KTasa(n), Hundredths(RMul(TouristTax, Rat(n, 1))))
        r6 == Set(r5, KInteres(observed, n), Round2(Interes(st_o)))
        st_d == SinTasa(RMul(price, ratio), n)
        r7 == Set(r6, KSinTasa(derived, n), Round2(SinTasaFinal(st_d)))
    IN  Set(r7, KInteres(derived, n), Round2(Interes(st_d)))

\* variant: the scraped side is flagged too
PrivadoRulesBothFlagged(row, price, n) ==
    Set(Expand(row, "Privado", "Compartido", SharedRatio, price, n),
        KCalculado("Privado", n), TRUE)

\* variant: the shared price derived with the ratio of the private one
PrivadoRulesPrivateRatio(row, price, n) ==
    Expand(row, "Privado", "Compartido", PrivateRatio, price, n)

\* type == 'Privado'
PrivadoRules(row, price, n) ==
    Expand(row, "Privado", "Compartido", SharedRatio, price, n)

\* variant: the private price derived with the ratio of the shared one
CompartidoRulesSharedRatio(row, price, n) ==
    Expand(row, "Compartido", "Privado", SharedRatio, price, n)

\* type == 'Compartido'
CompartidoRules(row, price, n) ==
    Expand(row, "Compartido", "Privado", PrivateRatio, price, n)

\* variant: the scraped price taken as that of private rooms
HibridoRulesAsPrivado(row, price, n) ==
    Expand(row, "Privado", "Compartido", SharedRatio, price, n)

\* variant: a Hybrid hotel's private price derived with the ratio of the
\* shared one
HibridoRulesSharedRatio(row, price, n) ==
    Expand(row, "Compartido", "Privado", SharedRatio, price, n)

\* variant: a Hybrid hotel gets the two prices and the flag only
HibridoRulesPricesOnly(row, price, n) ==
    Set(Set(Set(row, KPrecio("Compartido", n), Round2(price)),
            KPrecio("Privado", n), Round2(RMul(price, PrivateRatio))),
        KCalculado("Privado", n), TRUE)

\* type == 'Híbrido' or type == 'Hibrido'
HibridoRules(row, price, n) ==
    Expand(row, "Compartido", "Privado", PrivateRatio, price, n)

\* variant: any other type is expanded as 'Compartido'
ApplyPricingRulesElseShared(row, hostel, price, n) ==
    IF Get(hostel, "type", "None") = "Privado"
    THEN PrivadoRules(row, price, n)
    ELSE CompartidoRules(row, price, n)

\* the if / elif chain on hostel.get('type'); no branch for any other type
ApplyPricingRules(row, hostel, price, n) ==
    LET type == Get(hostel, "type", "None")
    IN  IF type = "Privado" THEN PrivadoRules(row, price, n)
        ELSE IF type = "Compartido" THEN CompartidoRules(row, price, n)
        ELSE IF type = "Híbrido" \/ type = "Hibrido"
             THEN HibridoRules(row, price, n)
        ELSE row

----------------------------------------------------------------------------
(* Inputs *)

\* formatted prices, as the characters of avgPriceFormatted
PriceFormats ==
    { <<"€", " ", "5", "0">>,
      <<"€", " ", "7", "0">>,
      <<"€", " ", "1", "0">>,
      <<"€", " ", "1", "0", "0">>,
      <<"€", " ", "7", "5", ".", "5">>,
      <<"€", " ", "0", ".", "0">>,
      <<"€", " ", "0", ".", "0", "1">>,
      <<"N", "/", "A">> }

\* check-in days
Dates == {1, 2}

\* one day of the availability calendar: the fields the pipeline reads
\* ('available' and 'minLengthOfStay' are never read); every record of a
\* price list carries both, as the calendar query asks for them
Day(d, f) == [checkin |-> d, avgPriceFormatted |-> f]

Days == {Day(d, f) : d \in Dates, f \in PriceFormats}

SeqsUpTo(S, n) == UNION {[1..k -> S] : k \in 0..n}

\* the two series of the specification's section 8 (d = 1)
ExampleLists ==
    { <<Day(1, <<"€", " ", "5", "0">>), Day(1, <<"€", " ", "7", "0">>),
        Day(2, <<"€", " ", "1", "0">>)>>,
      <<Day(1, <<"€", " ", "5", "0">>), Day(2, <<"€", " ", "7", "0">>),
        Day(3, <<"€", " ", "0", ".", "0">>)>> }

\* a price 0.05 under the tourist tax of 2 adults
EdgeLists == { <<Day(1, <<"€", " ", "1", "0", ".", "9", "5">>)>> }

PriceLists == SeqsUpTo(Days, MaxEntries) \cup ExampleLists \cup EdgeLists

\* a calendar whose records carry no 'avgPriceFormatted': the list the price
\* query returns when the remote answer has 'days' without the price field
Unpriced == <<[checkin |-> 1]>>

Types == {"Privado", "Compartido", "Híbrido", "Hibrido", "Unknown Type"}

\* a fetched hotel record holding the keys `keys`
Hostel(keys, name, type, p2, p1) ==
    [k \in keys |->
        CASE k = "name" -> name
          [] k = "type" -> type
          [] k = "url" -> "https://www.booking.com/hotel/es/" \o name
          [] k = "price_2_adults" -> p2
          [] k = "price_1_adult" -> p1
          [] k = "error" -> "HTTP status 500"]

HostelName(i) == "h" \o ToString(i)

\* the record of a hotel whose fetch failed
ErrorRecord(name) == Hostel({"name", "type", "url", "error"}, name, "Privado", <<>>, <<>>)

\* single hotels: one occupancy count with any price list, any type or none
SingleHostels ==
    {Hostel({"name", "type", "url", "price_2_adults"}, HostelName(1), t, l, <<>>) :
        t \in Types, l \in PriceLists}
    \cup
    {Hostel({"name", "type", "url", "price_1_adult"}, HostelName(1), t, <<>>, l) :
        t \in Types, l \in PriceLists}
    \cup
    {Hostel({"name", "url", "price_2_adults", "price_1_adult"}, HostelName(1), "None", l, l) :
        l \in PriceLists}
    \cup {ErrorRecord(HostelName(1))}
    \cup
    {Hostel({"name", "type", "url", "price_2_adults", "price_1_adult"},
            HostelName(1), "Privado", l[1], l[2]) :
        l \in {<<Unpriced, <<>>>>, <<<<>>, Unpriced>>}}

\* the price lists of the hotels of a batch: empty, valid, nothing available
BatchPriceLists ==
    { <<>>,
      <<Day(1, <<"€", " ", "5", "0">>)>>,
      <<Day(1, <<"€", " ", "0", ".", "0">>)>> }

BatchTypes == {"Privado", "Unknown Type"}

BatchHostel(i, shape) ==
    IF shape.error THEN ErrorRecord(HostelName(i))
    ELSE Hostel({"name", "type", "url", "price_2_adults", "price_1_adult"},
                HostelName(i), shape.type, shape.p2, shape.p1)

BatchShapes ==
    {[error |-> FALSE, type |-> t, p2 |-> a, p1 |-> b] :
        t \in BatchTypes, a \in BatchPriceLists, b \in BatchPriceLists}
    \cup {[error |-> TRUE, type |-> "Privado", p2 |-> <<>>, p1 |-> <<>>]}
    \cup {[error |-> FALSE, type |-> "Privado", p2 |-> Unpriced, p1 |-> <<>>],
          [error |-> FALSE, type |-> "Privado", p2 |-> <<>>, p1 |-> Unpriced]}

Batches ==
    {[i \in 1..Len(f) |-> BatchHostel(i, f[i])] : f \in SeqsUpTo(BatchShapes, MaxHotels)}

SelectedDates == {{}} \cup {{d} : d \in Dates}

----------------------------------------------------------------------------
(* process_hostel_data, one step per position in the loop body *)

hostel == hostels_data[idx]

\* the row a hotel starts with
NewResult(h) ==
    [k \in {"Nombre Hotel", "Tipo", "URL"} |->
        CASE k = "Nombre Hotel" ->
                 Get(h, "original_name", Get(h, "name", "Unknown Hotel"))
          [] k = "Tipo" -> Get(h, "type", "Unknown Type")
          [] k = "URL" -> Get(h, "url", "")]

\* variant: no `continue`
AbandonsNever(h, key, sel) == FALSE

\* variant: `continue` in the block of 2 adults only
AbandonsFirstBlockOnly(h, key, sel) ==
    key = "price_2_adults" /\ Select(h, key, sel).kind = "continue"

\* variant: `continue` also when no available entry is on the selected date
AbandonsNoDate(h, key, sel) == Select(h, key, sel).kind \in {"continue", "nodate"}

\* `continue` when the availability filter leaves nothing
Abandons(h, key, sel) == Select(h, key, sel).kind = "continue"

\* df['price'] (or df['date']) raises KeyError: process_hostel_data is left
\* by the exception
Raises(h, key, sel) == Select(h, key, sel).kind = "raise"

\* variant: a block without a representative price expands the price 0
BlockZeroDefault(row, h, key, n, sel) ==
    LET s == Select(h, key, sel)
    IN  ApplyPricingRules(row, h, IF s.kind = "price" THEN s.price ELSE Rat(0, 1), n)

\* the row after the block of one occupancy count
Block(row, h, key, n, sel) ==
    LET s == Select(h, key, sel)
    IN  IF s.kind = "price" THEN ApplyPricingRules(row, h, s.price, n) ELSE row

\* variant: every row gets the 'Error' note
CheckedAlways(row) == Set(row, "Error", "No pricing data available for this hostel")

\* the row as appended: 'Error' added when no key starts with 'Precio'
Checked(row) ==
    IF \E k \in DOMAIN row : StartsWithPrecio(k)
    THEN row
    ELSE Set(row, "Error", "No pricing data available for this hostel")

\* process_hostel_data called on its own: no fetch stage, no page
NoMain ==
    /\ hostel_data = <<>>
    /\ tasks = <<>>
    /\ returned = <<>>
    /\ session_state = [scraping_results |-> <<>>]
    /\ messages = <<>>
    /\ date_option = "Single Day"
    /\ start_date = 1
    /\ end_date = {}
    /\ sidebar = <<>>
    /\ requests = {}

InitLoop ==
    /\ idx = 1
    /\ result = <<>>
    /\ results = <<>>
    /\ error_hostels = <<>>
    /\ pc = "loop"
    /\ NoMain

\* a batch of hotels
Init ==
    /\ hostels_data \in Batches
    /\ selected_date \in SelectedDates
    /\ InitLoop

\* one hotel with any price list
InitSingle ==
    /\ hostels_data \in {<<h>> : h \in SingleHostels}
    /\ selected_date \in SelectedDates
    /\ InitLoop

\* variant: the error record is put at the head of the list
ErrorHostelPrepend ==
    /\ pc = "loop"
    /\ idx <= Len(hostels_data)
    /\ "error" \in DOMAIN hostel
    /\ error_hostels' = <<hostel>> \o error_hostels
    /\ idx' = idx + 1
    /\ UNCHANGED <<hostels_data, selected_date, result, results, pc>>
    /\ UNCHANGED mainvars

\* variant: the hotel with a fetch error also gets a row
ErrorHostelAlsoRow ==
    /\ pc = "loop"
    /\ idx <= Len(hostels_data)
    /\ "error" \in DOMAIN hostel
    /\ error_hostels' = Append(error_hostels, hostel)
    /\ results' = Append(results, NewResult(hostel))
    /\ idx' = idx + 1
    /\ UNCHANGED <<hostels_data, selected_date, result, pc>>
    /\ UNCHANGED mainvars

ErrorHostel ==
    /\ pc = "loop"
    /\ idx <= Len(hostels_data)
    /\ "error" \in DOMAIN hostel
    /\ error_hostels' = Append(error_hostels, hostel)
    /\ idx' = idx + 1
    /\ UNCHANGED <<hostels_data, selected_date, result, results, pc>>
    /\ UNCHANGED mainvars

StartHostel ==
    /\ pc = "loop"
    /\ idx <= Len(hostels_data)
    /\ "error" \notin DOMAIN hostel
    /\ result' = NewResult(hostel)
    /\ pc' = "adults2"
    /\ UNCHANGED <<hostels_data, selected_date, idx, results, error_hostels>>
    /\ UNCHANGED mainvars

ProcessAdults2 ==
    /\ pc = "adults2"
    /\ ~Raises(hostel, "price_2_adults", selected_date)
    /\ ~Abandons(hostel, "price_2_adults", selected_date)
    /\ result' = Block(result, hostel, "price_2_adults", 2, selected_date)
    /\ pc' = "adults1"
    /\ UNCHANGED <<hostels_data, selected_date, idx, results, error_hostels>>
    /\ UNCHANGED mainvars

ContinueAdults2 ==
    /\ pc = "adults2"
    /\ Abandons(hostel, "price_2_adults", selected_date)
    /\ pc' = "loop"
    /\ idx' = idx + 1
    /\ UNCHANGED <<hostels_data, selected_date, result, results, error_hostels>>
    /\ UNCHANGED mainvars

ProcessAdults1 ==
    /\ pc = "adults1"
    /\ ~Raises(hostel, "price_1_adult", selected_date)
    /\ ~Abandons(hostel, "price_1_adult", selected_date)
    /\ result' = Block(result, hostel, "price_1_adult", 1, selected_date)
    /\ pc' = "check"
    /\ UNCHANGED <<hostels_data, selected_date, idx, results, error_hostels>>
    /\ UNCHANGED mainvars

ContinueAdults1 ==
    /\ pc = "adults1"
    /\ Abandons(hostel, "price_1_adult", selected_date)
    /\ pc' = "loop"
    /\ idx' = idx + 1
    /\ UNCHANGED <<hostels_data, selected_date, result, results, error_hostels>>
    /\ UNCHANGED mainvars

RaiseAdults2 ==
    /\ pc = "adults2"
    /\ Raises(hostel, "price_2_adults", selected_date)
    /\ pc' = "raised"
    /\ UNCHANGED <<hostels_data, selected_date, idx, result, results, error_hostels>>
    /\ UNCHANGED mainvars

RaiseAdults1 ==
    /\ pc = "adults1"
    /\ Raises(hostel, "price_1_adult", selected_date)
    /\ pc' = "raised"
    /\ UNCHANGED <<hostels_data, selected_date, idx, result, results, error_hostels>>
    /\ UNCHANGED mainvars

AppendResult ==
    /\ pc = "check"
    /\ result' = Checked(result)
    /\ results' = Append(results, Checked(result))
    /\ pc' = "loop"
    /\ idx' = idx + 1
    /\ UNCHANGED <<hostels_data, selected_date, error_hostels>>
    /\ UNCHANGED mainvars

\* variant: a list without rows is returned with a row that says so
ReturnNeverEmpty ==
    /\ pc = "loop"
    /\ idx > Len(hostels_data)
    /\ pc' = "done"
    /\ results' = IF results = <<>>
                  THEN <<Checked(NewResult(<<>>))>>
                  ELSE results
    /\ UNCHANGED <<hostels_data, selected_date, idx, result, error_hostels>>
    /\ UNCHANGED mainvars

Return ==
    /\ pc = "loop"
    /\ idx > Len(hostels_data)
    /\ pc' = "done"
    /\ UNCHANGED <<hostels_data, selected_date, idx, result, results, error_hostels>>
    /\ UNCHANGED mainvars

Next ==
    \/ ErrorHostel
    \/ StartHostel
    \/ ProcessAdults2
    \/ ContinueAdults2
    \/ ProcessAdults1
    \/ ContinueAdults1
    \/ RaiseAdults2
    \/ RaiseAdults1
    \/ AppendResult
    \/ Return

\* process_hostel_data on a batch
Spec == Init /\ [][Next]_vars

\* process_hostel_data on one hotel
SpecSingle == InitSingle /\ [][Next]_vars

----------------------------------------------------------------------------
(* process_hostel_data as one call *)

\* one iteration of the loop over hostels_data
Iteration(h, sel) ==
    IF "error" \in DOMAIN h THEN [kind |-> "error", row |-> <<>>]
    ELSE IF Raises(h, "price_2_adults", sel) THEN [kind |-> "raise", row |-> <<>>]
    ELSE IF Abandons(h, "price_2_adults", sel) THEN [kind |-> "continue", row |-> <<>>]
    ELSE IF Raises(h, "price_1_adult", sel) THEN [kind |-> "raise", row |-> <<>>]
    ELSE IF Abandons(h, "price_1_adult", sel) THEN [kind |-> "continue", row |-> <<>>]
    ELSE [kind |-> "row",
          row |-> Checked(Block(Block(NewResult(h), h, "price_2_adults", 2, sel),
                                h, "price_1_adult", 1, sel))]

\* the two lists after the iterations `its` on `hostels`: the loop stops at
\* the first iteration that raises
Lists(hostels, its) ==
    LET raising == {i \in 1..Len(hostels) : its[i].kind = "raise"}
        last == IF raising = {} THEN Len(hostels) ELSE SetMin(raising) - 1
        rows == SelectSeq(SubSeq(its, 1, last), LAMBDA it : it.kind = "row")
    IN  [raised |-> raising # {},
         results |-> [j \in 1..Len(rows) |-> rows[j].row],
         error_hostels |->
             SelectSeq(SubSeq(hostels, 1, last), LAMBDA h : "error" \in DOMAIN h)]

\* the call: raised tells whether an exception left it; results and
\* error_hostels are the two lists, as returned or as they were at the raise
process_hostel_data(hostels, sel) ==
    Lists(hostels, [i \in 1..Len(hostels) |-> Iteration(hostels[i], sel)])

----------------------------------------------------------------------------
(* scrape_hotels: one coroutine scrape_hostel per hotel, run together by   *)
(* asyncio.gather; a coroutine gives way at each await, so the steps of    *)
(* different hotels interleave in any order; `returned` lists the hotels   *)
(* in the order in which their coroutines returned                         *)

\* hostel.get('url', hostel.get('link', ''))
UrlOf(h) == Get(h, "url", Get(h, "link", ""))

\* what `await session.get(url)` ends in
Responses == {"exception", "status 500", "status 200"}

\* variant: the status of the response is not looked at
FetchFailureStatusIgnored(h, resp) ==
    IF UrlOf(h) = "" THEN "Missing URL"
    ELSE IF resp = "exception" THEN "ConnectError"
    ELSE ""

\* the error of the page fetch of a hotel, "" when there is none
FetchFailure(h, resp) ==
    IF UrlOf(h) = "" THEN "Missing URL"
    ELSE IF resp = "exception" THEN "ConnectError"
    ELSE IF resp # "status 200" THEN "HTTP status 500"
    ELSE ""

\* the record returned for a hotel whose page fetch failed
FetchError(h, error) ==
    [name |-> Get(h, "name", "Unknown Hotel"),
     type |-> Get(h, "type", "Unknown Type"),
     url |-> UrlOf(h),
     error |-> error]

\* hotel_info after the page was parsed
PageInfo(h) ==
    [name |-> "Booking " \o Get(h, "name", "Unknown Hotel"),
     url |-> UrlOf(h),
     type |-> Get(h, "type", "Unknown Type"),
     original_name |-> Get(h, "name", "Unknown Hotel")]

\* the calendars a price query can return: one priced day, one day without
\* the price field
CalendarDays == {<<Day(1, <<"€", " ", "5", "0">>)>>, Unpriced}

\* the JSON answers of the price API: without 'data', without
\* 'availabilityCalendar', without 'days', with 'days'
Payloads ==
    { [errors |-> "x"],
      [data |-> [hotel |-> "x"]],
      [data |-> [availabilityCalendar |-> [message |-> "x"]]] }
    \cup {[data |-> [availabilityCalendar |-> [days |-> l]]] : l \in CalendarDays}

\* what `await session.post(...)` and json.loads end in
Answers ==
    {[raises |-> TRUE, payload |-> <<>>]}
    \cup {[raises |-> FALSE, payload |-> p] : p \in Payloads}

\* scrape_prices: raises, or returns [] or the days of the answer
scrape_prices(answer) ==
    IF answer.raises THEN [raised |-> TRUE, days |-> <<>>]
    ELSE LET price_data == answer.payload
         IN  IF "data" \notin DOMAIN price_data
                \/ "availabilityCalendar" \notin DOMAIN price_data["data"]
             THEN [raised |-> FALSE, days |-> <<>>]
             ELSE IF "days" \notin DOMAIN price_data["data"]["availabilityCalendar"]
             THEN [raised |-> FALSE, days |-> <<>>]
             ELSE [raised |-> FALSE,
                   days |-> price_data["data"]["availabilityCalendar"]["days"]]

\* variant: a price query that raised is recorded as the hotel's error
WithPricesHotelError(hotel_info, key, answer) ==
    LET r == scrape_prices(answer)
    IN  IF r.raised
        THEN Set(Set(hotel_info, key, <<>>), "error", "ReadTimeout")
        ELSE Set(hotel_info, key, r.days)

\* hotel_info after the price query of one occupancy count
WithPrices(hotel_info, key, answer) ==
    LET r == scrape_prices(answer)
    IN  IF r.raised
        THEN Set(Set(hotel_info, key, <<>>), key \o "_error", "ReadTimeout")
        ELSE Set(hotel_info, key, r.days)

\* variant: gather returns as soon as one coroutine has returned
AnyReturned(ts) == \E i \in 1..Len(ts) : ts[i].at = "returned"

\* every coroutine has returned
AllReturned(ts) == \A i \in 1..Len(ts) : ts[i].at = "returned"

\* variant: the rows built before the exception are stored
KeptOnFailurePartial(ss, out) == Set(ss, "scraping_results", out.results)

\* the session state after the except clause of main: nothing is stored
KeptOnFailure(ss, out) == ss

\* what the main content area shows: the stored results, when not empty
Displayed ==
    IF "scraping_results" \in DOMAIN session_state
    THEN session_state["scraping_results"]
    ELSE <<>>

\* the hotels of the JSON file: with a URL or without
ConfigHostels(i) ==
    { [name |-> HostelName(i), type |-> "Privado",
       url |-> "https://www.booking.com/hotel/es/" \o HostelName(i)],
      [name |-> HostelName(i), type |-> "Privado"] }

ConfigBatches ==
    UNION {{f \in [1..k -> UNION {ConfigHostels(i) : i \in 1..k}] :
               \A i \in 1..k : f[i] \in ConfigHostels(i)} : k \in 1..MaxHotels}

\* the rows an earlier run left in the session
PreviousResults ==
    <<[k \in {"Nombre Hotel", "Tipo", "URL", "Error"} |->
         CASE k = "Nombre Hotel" -> "earlier run"
           [] k = "Tipo" -> "Privado"
           [] k = "URL" -> ""
           [] k = "Error" -> "No pricing data available for this hostel"]>>

\* amountOfDays is capped at 30
DaysLimit == 30

\* the end dates that can be picked lie up to MaxSpan days after the start
MaxSpan == 31

\* variant: the end date is taken as picked
ValidEndAsPicked(start, end) == end

\* the end date after the validation of the range: an end date before the
\* start is replaced by the start
ValidEnd(start, end) == IF end < start THEN start ELSE end

\* scrape_prices: the number of days asked for
price_n_days(start, end) ==
    LET n == IF end # {}
             THEN (CHOOSE e \in end : TRUE) - start + 1
             ELSE 1
    IN  IF n > DaysLimit THEN DaysLimit ELSE n

\* the script has run down to the date widgets, a list of hotels is loaded
\* and the button 'Scrape Hostel Prices' is clicked; selected_date is what
\* process_hostel_data will be called with: the date of 'Single Day', None
\* for a range
InitClick(batches, starts, ends) ==
    /\ hostel_data \in batches
    /\ date_option \in {"Single Day", "Date Range"}
    /\ start_date \in starts
    /\ end_date \in IF date_option = "Single Day" THEN {{}}
                     ELSE {{start_date + k} : k \in ends}
    /\ selected_date = IF date_option = "Single Day" THEN {start_date} ELSE {}
    /\ sidebar = <<>>
    /\ requests = {}
    /\ tasks = [i \in 1..Len(hostel_data) |->
                   [at |-> "start", page |-> "none", hotel_info |-> <<>>]]
    /\ returned = <<>>
    /\ session_state \in {[scraping_results |-> <<>>],
                           [scraping_results |-> PreviousResults]}
    /\ messages = <<>>
    /\ hostels_data = <<>>
    /\ idx = 1
    /\ result = <<>>
    /\ results = <<>>
    /\ error_hostels = <<>>
    /\ pc = "dates"

\* a click with one or more hotels, on a single day or a range of two days
InitMain == InitClick(ConfigBatches, {1}, {1})

\* a click with one hotel and any dates
InitDates ==
    InitClick({b \in ConfigBatches : Len(b) = 1}, Dates, (0 - 2)..MaxSpan)

\* the sidebar validates the dates; the click starts scrape_hotels
ValidateDates ==
    /\ pc = "dates"
    /\ IF date_option = "Single Day"
       THEN /\ end_date' = {}
            /\ sidebar' = <<"info">>
       ELSE \E end \in end_date :
                /\ end_date' = {ValidEnd(start_date, end)}
                /\ sidebar' = IF end < start_date THEN <<"error">> ELSE <<"info">>
    /\ pc' = "scrape"
    /\ UNCHANGED <<hostels_data, selected_date, idx, result, results, error_hostels,
                   hostel_data, tasks, returned, session_state, messages,
                   date_option, start_date, requests>>

loopvars == <<hostels_data, selected_date, idx, result, results, error_hostels, pc>>

\* scrape_hostel from its start to the first price query, or to its return
\* with an error record
FetchPage(i) ==
    /\ pc = "scrape"
    /\ tasks[i].at = "start"
    /\ \E resp \in Responses :
           LET error == FetchFailure(hostel_data[i], resp)
           IN  tasks' = [tasks EXCEPT ![i] =
                   IF error # ""
                   THEN [at |-> "returned",
                         page |-> IF UrlOf(hostel_data[i]) = "" THEN "none" ELSE resp,
                         hotel_info |-> FetchError(hostel_data[i], error)]
                   ELSE [at |-> "prices2", page |-> resp,
                         hotel_info |-> PageInfo(hostel_data[i])]]
    /\ returned' = IF tasks'[i].at = "returned" THEN Append(returned, i) ELSE returned
    /\ UNCHANGED <<loopvars, hostel_data, session_state, messages, datevars, requests>>

\* the price query of 2 adults answered
PricesAdults2(i) ==
    /\ pc = "scrape"
    /\ tasks[i].at = "prices2"
    /\ \E answer \in Answers :
           tasks' = [tasks EXCEPT ![i] =
               [at |-> "prices1", page |-> @.page,
                hotel_info |-> WithPrices(@.hotel_info, "price_2_adults", answer)]]
    /\ requests' = requests \cup
           {[hotel |-> i, nbAdults |-> 2,
             amountOfDays |-> price_n_days(start_date, end_date)]}
    /\ UNCHANGED <<loopvars, hostel_data, returned, session_state, messages, datevars>>

\* the price query of 1 adult answered; scrape_hostel returns hotel_info
PricesAdults1(i) ==
    /\ pc = "scrape"
    /\ tasks[i].at = "prices1"
    /\ \E answer \in Answers :
           tasks' = [tasks EXCEPT ![i] =
               [at |-> "returned", page |-> @.page,
                hotel_info |-> WithPrices(@.hotel_info, "price_1_adult", answer)]]
    /\ returned' = Append(returned, i)
    /\ requests' = requests \cup
           {[hotel |-> i, nbAdults |-> 1,
             amountOfDays |-> price_n_days(start_date, end_date)]}
    /\ UNCHANGED <<loopvars, hostel_data, session_state, messages, datevars>>

\* variant: the records in the order in which the coroutines returned
gatherAsCompleted(ts, order) ==
    [k \in 1..Len(order) |-> ts[order[k]].hotel_info]

\* asyncio.gather: the records in the order of the awaitables, whatever the
\* order in which they returned
gather(ts, order) ==
    [i \in 1..Len(ts) |-> ts[i].hotel_info]

\* scrape_hotels returns what gather returns; main stores it in the session
Gather ==
    /\ pc = "scrape"
    /\ AllReturned(tasks)
    /\ hostels_data' = gather(tasks, returned)
    /\ session_state' = Set(session_state, "hostels_data", hostels_data')
    /\ pc' = "process"
    /\ UNCHANGED <<selected_date, idx, result, results, error_hostels,
                   hostel_data, tasks, returned, messages, datevars, requests>>

\* process_hostel_data returned: the lists are stored and reported
ProcessShown ==
    /\ pc = "process"
    /\ \E out \in {process_hostel_data(hostels_data, selected_date)} :
           /\ ~out.raised
           /\ results' = out.results
           /\ error_hostels' = out.error_hostels
           /\ session_state' =
                  Set(Set(session_state, "scraping_results", out.results),
                      "error_hostels", out.error_hostels)
           /\ messages' =
                  <<"success">> \o
                  (IF out.error_hostels # <<>>
                   THEN [j \in 1..(1 + Len(out.error_hostels)) |-> "warning"]
                   ELSE <<>>)
    /\ pc' = "shown"
    /\ UNCHANGED <<hostels_data, selected_date, idx, result, hostel_data, tasks,
                   returned, datevars, requests>>

\* process_hostel_data raised: the except clause of main reports the error
ProcessFailed ==
    /\ pc = "process"
    /\ \E out \in {process_hostel_data(hostels_data, selected_date)} :
           /\ out.raised
           /\ session_state' = KeptOnFailure(session_state, out)
    /\ messages' = <<"error", "error">>
    /\ pc' = "failed"
    /\ UNCHANGED <<hostels_data, selected_date, idx, result, results,
                   error_hostels, hostel_data, tasks, returned, datevars, requests>>

NextMain ==
    \/ ValidateDates
    \/ \E i \in 1..Len(tasks) : FetchPage(i)
    \/ \E i \in 1..Len(tasks) : PricesAdults2(i)
    \/ \E i \in 1..Len(tasks) : PricesAdults1(i)
    \/ Gather
    \/ ProcessShown
    \/ ProcessFailed

\* one click on the scrape button: fetch, then process, then show
SpecMain == InitMain /\ [][NextMain]_vars

\* one click with one hotel and any choice of dates
SpecDates == InitDates /\ [][NextMain]_vars

----------------------------------------------------------------------------
(* What the claims are stated with: the inputs read without the program's  *)
(* parser and arithmetic.  Prices are whole numbers of hundredths.         *)

\* the price a formatted string quotes, in hundredths; -1 when it quotes none
Quoted(f) ==
    CASE f = <<"€", " ", "5", "0">> -> 5000
      [] f = <<"€", " ", "7", "0">> -> 7000
      [] f = <<"€", " ", "1", "0">> -> 1000
      [] f = <<"€", " ", "1", "0", "0">> -> 10000
      [] f = <<"€", " ", "7", "5", ".", "5">> -> 7550
      [] f = <<"€", " ", "1", "0", ".", "9", "5">> -> 1095
      [] f = <<"€", " ", "0", ".", "0">> -> 0
      [] f = <<"€", " ", "0", ".", "0", "1">> -> 1
      [] f = <<"N", "/", "A">> -> -1

KeyOf(n) == IF n = 2 THEN "price_2_adults" ELSE "price_1_adult"

\* the price list of occupancy count n, empty when the hotel has none
ListOf(h, n) == Get(h, KeyOf(n), <<>>)

\* an entry that is no price: at most 0.01, no number, or no price field
IsSentinel(day) ==
    "avgPriceFormatted" \notin DOMAIN day \/ Quoted(day.avgPriceFormatted) <= 1

\* the entries a representative price may use
Usable(l, sel) ==
    {j \in 1..Len(l) : ~IsSentinel(l[j]) /\ (sel = {} \/ l[j].checkin \in sel)}

RECURSIVE QuotedSum(_, _)
QuotedSum(l, J) ==
    IF J = {} THEN 0
    ELSE LET j == CHOOSE j \in J : TRUE
         IN  Quoted(l[j].avgPriceFormatted) + QuotedSum(l, J \ {j})

\* the representative price is PNum / PDen hundredths
PNum(l, sel) ==
    IF sel = {} THEN QuotedSum(l, Usable(l, sel))
    ELSE SetMin({Quoted(l[j].avgPriceFormatted) : j \in Usable(l, sel)})

PDen(l, sel) == IF sel = {} THEN Cardinality(Usable(l, sel)) ELSE 1

\* v is an integer nearest to num / den (den > 0)
Nearest(v, num, den) == 2 * Abs(v * den - num) <= den

TypeOf(h) == Get(h, "type", "None")

Recognised(h) == TypeOf(h) \in {"Privado", "Compartido", "Híbrido", "Hibrido"}

\* the room type whose price is the scraped one, and the other one
Observed(h) == IF TypeOf(h) = "Privado" THEN "Privado" ELSE "Compartido"

Derived(h) == IF TypeOf(h) = "Privado" THEN "Compartido" ELSE "Privado"

\* the derived price is the observed one times Fifths(h) / 5
Fifths(h) == IF TypeOf(h) = "Privado" THEN 4 ELSE 6

\* the block of occupancy count n of the current hotel has run
After(n) == pc = "check" \/ (n = 2 /\ pc = "adults1")

\* the current hotel has a representative price for occupancy count n
HasPrice(n) == Usable(ListOf(hostel, n), selected_date) # {}

\* the fields of occupancy count n in a row
FieldsOf(row, n) ==
    LET keys == UNION {{KPrecio(sd, n), KCalculado(sd, n), KSinTasa(sd, n),
                        KInteres(sd, n), KTasa(n)} : sd \in Sides}
    IN  [k \in keys \cap DOMAIN row |-> row[k]]

\* hotel h with the price list of occupancy count n replaced by l
WithList(h, n, l) == [k \in DOMAIN h |-> IF k = KeyOf(n) THEN l ELSE h[k]]

\* hotel h with another type
WithType(h, t) == [k \in DOMAIN h |-> IF k = "type" THEN t ELSE h[k]]

Names(rows, key) == {rows[j][key] : j \in 1..Len(rows)}

\* a price list that is not empty and holds no entry with price > 0.01
NothingAvailable(l) == l # <<>> /\ \A j \in 1..Len(l) : IsSentinel(l[j])

\* the name a row or an error record of hotel h carries
RowName(h) == Get(h, "original_name", Get(h, "name", "Unknown Hotel"))

\* the hotel of the batch an emitted row belongs to (names are distinct)
HotelOf(row) ==
    hostels_data[CHOOSE i \in 1..Len(hostels_data) :
                     RowName(hostels_data[i]) = row["Nombre Hotel"]]

----------------------------------------------------------------------------
(* Claims *)

\* C1: for a recognised category, an occupancy count n and a representative
\* price p, the row holds tourist tax 5.5 * n and, for the observed side
\* (x = p) and the derived side (x = p * 0.8 or p * 1.2), the margin
\* 0.08 * (x - 5.5 n) and the net price 0.92 * (x - 5.5 n), each rounded to
\* the nearest hundredth.  Private, p = 100, n = 2: tax 11.0, net private
\* 81.88, net shared 63.48.  Shared, p = 50, n = 1: tax 5.5, net shared
\* 40.94, net private 50.14.
C1_TaxMarginNet ==
    \A n \in Occupancies :
        (After(n) /\ Recognised(hostel) /\ HasPrice(n)) =>
            LET P == PNum(ListOf(hostel, n), selected_date)
                K == PDen(ListOf(hostel, n), selected_date)
                T == 550 * n
                a == Fifths(hostel)
                obs == Observed(hostel)
                der == Derived(hostel)
            IN  /\ {KTasa(n), KInteres(obs, n), KSinTasa(obs, n),
                    KInteres(der, n), KSinTasa(der, n)} \subseteq DOMAIN result
                /\ result[KTasa(n)] = T
                /\ Nearest(result[KInteres(obs, n)], 2 * (P - T * K), 25 * K)
                /\ Nearest(result[KSinTasa(obs, n)], 23 * (P - T * K), 25 * K)
                /\ Nearest(result[KInteres(der, n)], 2 * (a * P - 5 * T * K), 125 * K)
                /\ Nearest(result[KSinTasa(der, n)], 23 * (a * P - 5 * T * K), 125 * K)
                /\ (TypeOf(hostel) = "Privado" /\ n = 2 /\ P = 10000 * K) =>
                       /\ result[KTasa(2)] = 1100
                       /\ result[KSinTasa("Privado", 2)] = 8188
                       /\ result[KSinTasa("Compartido", 2)] = 6348
                /\ (TypeOf(hostel) = "Compartido" /\ n = 1 /\ P = 5000 * K) =>
                       /\ result[KTasa(1)] = 550
                       /\ result[KSinTasa("Compartido", 1)] = 4094
                       /\ result[KSinTasa("Privado", 1)] = 5014

\* C1 witness: a Private hotel with p = 100 for 2 adults, expanded
C1_Witness ==
    /\ pc = "check"
    /\ TypeOf(hostel) = "Privado"
    /\ HasPrice(2)
    /\ PNum(ListOf(hostel, 2), selected_date) = 10000 * PDen(ListOf(hostel, 2), selected_date)
    /\ result[KSinTasa("Privado", 2)] = 8188
    /\ result[KSinTasa("Compartido", 2)] = 6348

\* C2: for an occupancy count with representative price p, a Private hotel
\* gets private = round(p, 2) and shared = round(p * 0.8, 2); a Shared hotel
\* gets shared = round(p, 2) and private = round(p * 1.2, 2).
C2_ObservedAndDerivedPrice ==
    \A n \in Occupancies :
        (After(n) /\ TypeOf(hostel) \in {"Privado", "Compartido"} /\ HasPrice(n)) =>
            LET P == PNum(ListOf(hostel, n), selected_date)
                K == PDen(ListOf(hostel, n), selected_date)
            IN  /\ {KPrecio("Privado", n), KPrecio("Compartido", n)} \subseteq DOMAIN result
                /\ TypeOf(hostel) = "Privado" =>
                       /\ Nearest(result[KPrecio("Privado", n)], P, K)
                       /\ Nearest(result[KPrecio("Compartido", n)], 4 * P, 5 * K)
                /\ TypeOf(hostel) = "Compartido" =>
                       /\ Nearest(result[KPrecio("Compartido", n)], P, K)
                       /\ Nearest(result[KPrecio("Privado", n)], 6 * P, 5 * K)

\* C2 witness: a Shared hotel with p = 50 for 1 adult: shared 50.00, private 60.00
C2_Witness ==
    /\ pc = "check"
    /\ TypeOf(hostel) = "Compartido"
    /\ HasPrice(1)
    /\ PNum(ListOf(hostel, 1), selected_date) = 5000 * PDen(ListOf(hostel, 1), selected_date)
    /\ result[KPrecio("Compartido", 1)] = 5000
    /\ result[KPrecio("Privado", 1)] = 6000

\* C3: the representative price never depends on entries whose price is
\* at most 0.01 (0.01 included) or whose formatted price holds no number:
\* the fields of an occupancy count are those its price list gives with
\* every such entry removed; a string without a number parses to NaN, and
\* the parsed series is as long as the price list.
C3_SentinelsIgnored ==
    \A n \in Occupancies :
        After(n) =>
            LET l == ListOf(hostel, n)
                clean == SelectSeq(l, LAMBDA day : ~IsSentinel(day))
                df == parse_hotel_prices(l)
            IN  /\ Len(df) = Len(l)
                /\ \A j \in 1..Len(l) :
                       Quoted(l[j].avgPriceFormatted) = -1 => IsNaN(df[j].price)
                /\ FieldsOf(result, n) =
                       FieldsOf(Block(NewResult(hostel), WithList(hostel, n, clean),
                                      KeyOf(n), n, selected_date), n)

\* C3 witness: a range series holding a price of exactly 0.01 beside a usable
\* one, whose fields are written
C3_Witness ==
    /\ pc = "check"
    /\ selected_date = {}
    /\ Recognised(hostel)
    /\ HasPrice(2)
    /\ \E j \in 1..Len(ListOf(hostel, 2)) :
           Quoted(ListOf(hostel, 2)[j].avgPriceFormatted) = 1
    /\ KPrecio(Observed(hostel), 2) \in DOMAIN result

\* C4: with selected_date = d the representative price of an occupancy count
\* is the minimum over exactly the entries with price > 0.01 dated d, and
\* absent when there is none; {(d,50), (d,70), (d+1,10)} gives 50.
C4_SingleDateMinimum ==
    \A n \in Occupancies :
        (After(n) /\ Recognised(hostel) /\ selected_date # {}) =>
            LET l == ListOf(hostel, n)
                ondate == {Quoted(l[j].avgPriceFormatted) :
                             j \in {i \in 1..Len(l) :
                                      /\ Quoted(l[i].avgPriceFormatted) > 1
                                      /\ l[i].checkin \in selected_date}}
            IN  IF ondate = {}
                THEN KPrecio(Observed(hostel), n) \notin DOMAIN result
                ELSE /\ KPrecio(Observed(hostel), n) \in DOMAIN result
                     /\ result[KPrecio(Observed(hostel), n)] = SetMin(ondate)

\* C4 witness: the series {(1,50), (1,70), (2,10)} with selected date 1
C4_Witness ==
    /\ pc = "check"
    /\ selected_date = {1}
    /\ TypeOf(hostel) = "Privado"
    /\ ListOf(hostel, 2) = <<Day(1, <<"€", " ", "5", "0">>),
                             Day(1, <<"€", " ", "7", "0">>),
                             Day(2, <<"€", " ", "1", "0">>)>>
    /\ result[KPrecio("Privado", 2)] = 5000

\* C5: without selected_date the representative price of an occupancy count
\* is the mean of all entries with price > 0.01, whatever their dates; the
\* other entries count neither in the sum nor in the divisor;
\* {(d,50), (d+1,70), (d+2,0.0)} gives 60.
C5_RangeMean ==
    \A n \in Occupancies :
        (After(n) /\ Recognised(hostel) /\ selected_date = {}) =>
            LET l == ListOf(hostel, n)
                valid == {j \in 1..Len(l) : Quoted(l[j].avgPriceFormatted) > 1}
            IN  IF valid = {}
                THEN KPrecio(Observed(hostel), n) \notin DOMAIN result
                ELSE /\ KPrecio(Observed(hostel), n) \in DOMAIN result
                     /\ Nearest(result[KPrecio(Observed(hostel), n)],
                                QuotedSum(l, valid), Cardinality(valid))

\* C5 witness: the series {(1,50), (2,70), (3,0.0)} without selected date
C5_Witness ==
    /\ pc = "check"
    /\ selected_date = {}
    /\ TypeOf(hostel) = "Compartido"
    /\ ListOf(hostel, 1) = <<Day(1, <<"€", " ", "5", "0">>),
                             Day(2, <<"€", " ", "7", "0">>),
                             Day(3, <<"€", " ", "0", ".", "0">>)>>
    /\ result[KPrecio("Compartido", 1)] = 6000

\* C6: a representative price that is present, in either mode and for either
\* occupancy count, is greater than 0.01, and the observed price written to
\* the row is positive.
C6_RepresentativeAboveThreshold ==
    \A n \in Occupancies :
        /\ (pc \in {"adults2", "adults1", "check"}) =>
               LET s == Select(hostel, KeyOf(n), selected_date)
               IN  s.kind = "price" => 100 * s.price.num > s.price.den
        /\ (After(n) /\ KPrecio(Observed(hostel), n) \in DOMAIN result) =>
               result[KPrecio(Observed(hostel), n)] >= 1

\* C6 witness: a price selected for a date from a list that also holds an
\* entry of 0.01
C6_Witness ==
    /\ pc = "check"
    /\ selected_date # {}
    /\ Select(hostel, KeyOf(1), selected_date).kind = "price"
    /\ \E j \in 1..Len(ListOf(hostel, 1)) :
           Quoted(ListOf(hostel, 1)[j].avgPriceFormatted) = 1
    /\ KPrecio(Observed(hostel), 1) \in DOMAIN result

\* C7: in a row, for each occupancy count with price fields, both room types
\* have a price, exactly one of them carries the '(Calculado)' flag, the
\* flagged one is the derived price and the other the representative price.
C7_OneObservedOneDerived ==
    /\ \A n \in Occupancies :
           (After(n) /\ \E sd \in Sides : KPrecio(sd, n) \in DOMAIN result) =>
               LET P == PNum(ListOf(hostel, n), selected_date)
                   K == PDen(ListOf(hostel, n), selected_date)
               IN  /\ HasPrice(n)
                   /\ \A sd \in Sides : KPrecio(sd, n) \in DOMAIN result
                   /\ Cardinality({sd \in Sides : KCalculado(sd, n) \in DOMAIN result}) = 1
                   /\ \A sd \in Sides :
                          IF KCalculado(sd, n) \in DOMAIN result
                          THEN /\ result[KCalculado(sd, n)] = TRUE
                               /\ Nearest(result[KPrecio(sd, n)], Fifths(hostel) * P, 5 * K)
                          ELSE Nearest(result[KPrecio(sd, n)], P, K)
    /\ \A j \in 1..Len(results) : \A n \in Occupancies :
           (\E sd \in Sides : KPrecio(sd, n) \in DOMAIN results[j]) =>
               /\ \A sd \in Sides : KPrecio(sd, n) \in DOMAIN results[j]
               /\ Cardinality({sd \in Sides : KCalculado(sd, n) \in DOMAIN results[j]}) = 1

\* C7 witness: an emitted row of a Private hotel whose shared price of 1 adult
\* is flagged and whose private price is not
C7_Witness ==
    /\ pc = "done"
    /\ Len(results) = 1
    /\ results[1]["Tipo"] = "Privado"
    /\ KCalculado("Compartido", 1) \in DOMAIN results[1]
    /\ KCalculado("Privado", 1) \notin DOMAIN results[1]
    /\ KPrecio("Privado", 1) \in DOMAIN results[1]

\* C8: a Hybrid hotel ('Híbrido' or 'Hibrido') gets, for both occupancy
\* counts, the price, net price, tax, margin and flag fields that a Shared
\* hotel gets from the same price data.
C8_HybridAsShared ==
    \A n \in Occupancies :
        (After(n) /\ TypeOf(hostel) \in {"Híbrido", "Hibrido"}) =>
            FieldsOf(result, n) =
                FieldsOf(Block(NewResult(hostel), WithType(hostel, "Compartido"),
                               KeyOf(n), n, selected_date), n)

\* C8 witness: a Hybrid hotel whose fields of 2 adults are written
C8_Witness ==
    /\ pc = "check"
    /\ TypeOf(hostel) = "Híbrido"
    /\ HasPrice(2)
    /\ KCalculado("Privado", 2) \in DOMAIN result
    /\ KSinTasa("Compartido", 2) \in DOMAIN result


\* the hotel at position i is in neither list
Dropped(i) ==
    /\ hostels_data[i]["name"] \notin Names(results, "Nombre Hotel")
    /\ hostels_data[i]["name"] \notin Names(error_hostels, "name")

\* C9: a hotel without fetch error whose price list of 2 adults (the block
\* processed first) is not empty and holds no price > 0.01 is in neither
\* rows nor errors, also when its list of 1 adult holds valid prices.
C9_DroppedOnFirstBlock ==
    pc = "done" =>
        \A i \in 1..Len(hostels_data) :
            ("error" \notin DOMAIN hostels_data[i]
             /\ NothingAvailable(ListOf(hostels_data[i], 2))) => Dropped(i)

\* C9 witness: such a hotel with valid prices for 1 adult, dropped from a
\* batch that emitted a row for another hotel
C9_Witness ==
    /\ pc = "done"
    /\ Len(results) >= 1
    /\ \E i \in 1..Len(hostels_data) :
           /\ "error" \notin DOMAIN hostels_data[i]
           /\ NothingAvailable(ListOf(hostels_data[i], 2))
           /\ Usable(ListOf(hostels_data[i], 1), selected_date) # {}
           /\ Dropped(i)

\* C10: a hotel whose block of 2 adults wrote price fields and whose price
\* list of 1 adult is not empty and holds no price > 0.01 is in neither rows
\* nor errors: the fields of 2 adults are computed and then lost.
C10_DroppedOnSecondBlock ==
    /\ (/\ pc = "adults1"
        /\ Recognised(hostel)
        /\ HasPrice(2)
        /\ NothingAvailable(ListOf(hostel, 1))) =>
           KPrecio(Observed(hostel), 2) \in DOMAIN result
    /\ pc = "done" =>
           \A i \in 1..Len(hostels_data) :
               (/\ "error" \notin DOMAIN hostels_data[i]
                /\ Recognised(hostels_data[i])
                /\ Usable(ListOf(hostels_data[i], 2), selected_date) # {}
                /\ NothingAvailable(ListOf(hostels_data[i], 1))) => Dropped(i)

\* C10 witness: the last hotel of a batch had its fields of 2 adults written
\* and is in neither list
C10_Witness ==
    /\ pc = "done"
    /\ \E i \in 1..Len(hostels_data) :
           /\ "error" \notin DOMAIN hostels_data[i]
           /\ Usable(ListOf(hostels_data[i], 2), selected_date) # {}
           /\ NothingAvailable(ListOf(hostels_data[i], 1))
           /\ "Nombre Hotel" \in DOMAIN result
           /\ result["Nombre Hotel"] = hostels_data[i]["name"]
           /\ KPrecio(Observed(hostels_data[i]), 2) \in DOMAIN result
           /\ Dropped(i)

\* C11: a row holds none of the fields of an occupancy count that has no
\* representative price (no price list, or no entry above 0.01 on the
\* selected date): the keys are absent, not present with a zero.
C11_NoPriceNoFields ==
    /\ \A n \in Occupancies :
           (After(n) /\ ~HasPrice(n)) => DOMAIN FieldsOf(result, n) = {}
    /\ \A j \in 1..Len(results) : \A n \in Occupancies :
           Usable(ListOf(HotelOf(results[j]), n), selected_date) = {} =>
               DOMAIN FieldsOf(results[j], n) = {}

\* C11 witness: a row emitted for a hotel of a recognised category whose
\* calendar of 2 adults has prices, none of them on the selected date
C11_Witness ==
    /\ pc = "done"
    /\ Len(results) = 1
    /\ Recognised(hostels_data[1])
    /\ \E j \in 1..Len(ListOf(hostels_data[1], 2)) :
           ~IsSentinel(ListOf(hostels_data[1], 2)[j])
    /\ Usable(ListOf(hostels_data[1], 2), selected_date) = {}
    /\ DOMAIN FieldsOf(results[1], 2) = {}

\* C12: a hotel whose category is none of 'Privado', 'Compartido',
\* 'Híbrido', 'Hibrido', or that has no category, gets no pricing field
\* whatever its price lists hold, and is not put in the error list: its row
\* holds the name, the category, the URL and the 'Error' note only.
C12_UnrecognisedCategory ==
    /\ (pc \in {"adults1", "check"} /\ ~Recognised(hostel)) =>
           DOMAIN result = {"Nombre Hotel", "Tipo", "URL"}
    /\ \A j \in 1..Len(results) :
           ~Recognised(HotelOf(results[j])) =>
               DOMAIN results[j] = {"Nombre Hotel", "Tipo", "URL", "Error"}
    /\ \A i \in 1..Len(hostels_data) :
           ("error" \notin DOMAIN hostels_data[i] /\ ~Recognised(hostels_data[i])) =>
               RowName(hostels_data[i]) \notin Names(error_hostels, "name")

\* C12 witness: a hotel without category and with a representative price for
\* both occupancy counts, emitted as a row without pricing fields
C12_Witness ==
    /\ pc = "done"
    /\ Len(results) = 1
    /\ "type" \notin DOMAIN hostels_data[1]
    /\ \A n \in Occupancies : Usable(ListOf(hostels_data[1], n), selected_date) # {}
    /\ DOMAIN results[1] = {"Nombre Hotel", "Tipo", "URL", "Error"}
    /\ error_hostels = <<>>

\* the position in the batch of the hotel of an emitted row
Pos(row) ==
    CHOOSE i \in 1..Len(hostels_data) :
        RowName(hostels_data[i]) = row["Nombre Hotel"]

\* C13: the error list is, in their input order, the records with a fetch
\* error among the hotels gone through so far; no row belongs to such a
\* hotel, and the rows are in the input order of their hotels.
C13_ErrorsApartInOrder ==
    /\ error_hostels =
           SelectSeq(SubSeq(hostels_data, 1, idx - 1), LAMBDA h : "error" \in DOMAIN h)
    /\ \A j \in 1..Len(results) : "error" \notin DOMAIN HotelOf(results[j])
    /\ \A j, k \in 1..Len(results) : j < k => Pos(results[j]) < Pos(results[k])

\* C13 witness: a batch of two hotels with fetch errors, both in the error
\* list in their input order and none in the rows
C13_Witness ==
    /\ pc = "done"
    /\ Len(hostels_data) = 2
    /\ error_hostels = hostels_data
    /\ error_hostels[1]["name"] # error_hostels[2]["name"]
    /\ results = <<>>

\* x - 5.5 n for a side of the current hotel, as ShortNum / ShortDen
\* hundredths: x is the representative price on the observed side and the
\* derived price on the other
ShortNum(n, side) ==
    LET P == PNum(ListOf(hostel, n), selected_date)
        K == PDen(ListOf(hostel, n), selected_date)
    IN  IF side = Observed(hostel) THEN P - 550 * n * K
        ELSE Fifths(hostel) * P - 5 * 550 * n * K

ShortDen(n, side) ==
    LET K == PDen(ListOf(hostel, n), selected_date)
    IN  IF side = Observed(hostel) THEN K ELSE 5 * K

C20_RoundTripObserved ==
    \A n \in Occupancies :
        (After(n) /\ Recognised(hostel) /\ HasPrice(n)) =>
            LET P == PNum(ListOf(hostel, n), selected_date)
                K == PDen(ListOf(hostel, n), selected_date)
                a == Fifths(hostel)
                O == result[KPrecio(Observed(hostel), n)]
            IN  Abs(5 * O * K - a * P) <= a * K

\* C20 amended: the price written on the derived side, divided by the
\* multiplier that derived it (0.8 for Private, 1.2 for Shared and Hybrid),
\* is the representative price to within a hundredth; the price written on
\* the observed side is the representative price itself, rounded.
\* Private, p = 100: shared 80.00, 80 / 0.8 = 100.
C20_RoundTripDerived ==
    \A n \in Occupancies :
        (After(n) /\ Recognised(hostel) /\ HasPrice(n)) =>
            LET P == PNum(ListOf(hostel, n), selected_date)
                K == PDen(ListOf(hostel, n), selected_date)
                a == Fifths(hostel)
                O == result[KPrecio(Observed(hostel), n)]
                D == result[KPrecio(Derived(hostel), n)]
            IN  /\ Abs(5 * D * K - a * P) <= a * K
                /\ Abs(O * K - P) <= K
                /\ (TypeOf(hostel) = "Privado" /\ P = 10000 * K) => 5 * D = 4 * 10000

\* C20 witness: a Hybrid hotel with p = 75.5 for 1 adult: private 90.60
\* written, and 90.6 / 1.2 = 75.5
C20_Witness ==
    /\ pc = "check"
    /\ TypeOf(hostel) \in {"Híbrido", "Hibrido"}
    /\ HasPrice(1)
    /\ PNum(ListOf(hostel, 1), selected_date) = 7550 * PDen(ListOf(hostel, 1), selected_date)
    /\ result[KPrecio("Compartido", 1)] = 7550
    /\ result[KPrecio("Privado", 1)] = 9060

\* the loop, gone through step by step, ends as process_hostel_data taken
\* as one call
LoopIsCall ==
    \A out \in {process_hostel_data(hostels_data, selected_date)} :
        /\ pc = "done" =>
               (~out.raised /\ results = out.results /\ error_hostels = out.error_hostels)
        /\ pc = "raised" =>
               (out.raised /\ results = out.results /\ error_hostels = out.error_hostels)

\* the page fetch of the hotel at position i failed: no URL, an exception,
\* or a status other than 200
PageFailed(i) ==
    \/ "url" \notin DOMAIN hostel_data[i] /\ "link" \notin DOMAIN hostel_data[i]
    \/ tasks[i].page \in {"exception", "status 500"}

\* C14: while a fetch of the batch is still running nothing is processed: no
\* fetched list, no row, no error entry, no message; processing runs only
\* when every coroutine has returned, by success or by its own failure.
C14_FetchBarrier ==
    /\ pc = "scrape" =>
           /\ hostels_data = <<>>
           /\ results = <<>> /\ error_hostels = <<>>
           /\ messages = <<>>
           /\ "hostels_data" \notin DOMAIN session_state
    /\ pc \in {"process", "shown", "failed"} =>
           /\ \A i \in 1..Len(tasks) : tasks[i].at = "returned"
           /\ Len(hostels_data) = Len(hostel_data)

\* C14 witness: the fetch of the second hotel has returned with its prices,
\* the first hotel is still waiting for its page, nothing is processed
C14_Witness ==
    /\ pc = "scrape"
    /\ Len(tasks) = 2
    /\ tasks[1].at = "start"
    /\ tasks[2].at = "returned"
    /\ "price_1_adult" \in DOMAIN tasks[2].hotel_info
    /\ hostels_data = <<>> /\ results = <<>>

\* C15: a hotel without URL, or whose page fetch raised or gave a status
\* other than 200, returns an error record (name, type, url, error) and no
\* other hotel does; gather gives one record per hotel; when the lists are
\* shown, the hotel is in the error list and has no row.  (The lists exist
\* when process_hostel_data returns; C17 is about when it does not.)
C15_FetchFailureIsolated ==
    /\ \A i \in 1..Len(tasks) :
           tasks[i].at = "returned" =>
               IF PageFailed(i)
               THEN /\ DOMAIN tasks[i].hotel_info = {"name", "type", "url", "error"}
                    /\ tasks[i].hotel_info["name"] = hostel_data[i]["name"]
                    /\ tasks[i].hotel_info["error"] # ""
               ELSE "error" \notin DOMAIN tasks[i].hotel_info
    /\ \A i \in 1..Len(tasks) :
           tasks[i].at \in {"prices2", "prices1"} => ~PageFailed(i)
    /\ pc \in {"process", "shown", "failed"} =>
           /\ Len(hostels_data) = Len(hostel_data)
           /\ \A i \in 1..Len(hostels_data) : hostels_data[i] = tasks[i].hotel_info
    /\ pc = "shown" =>
           \A i \in 1..Len(hostel_data) :
               PageFailed(i) =>
                   /\ \E j \in 1..Len(error_hostels) : error_hostels[j] = hostels_data[i]
                   /\ hostel_data[i]["name"] \notin Names(results, "Nombre Hotel")

\* C15 witness: of two hotels the first got status 500 and the second was
\* fetched with a price; the first is the error list, the second has a row
C15_Witness ==
    /\ pc = "shown"
    /\ Len(hostel_data) = 2
    /\ tasks[1].page = "status 500"
    /\ error_hostels = <<hostels_data[1]>>
    /\ Len(results) = 1
    /\ results[1]["Nombre Hotel"] = hostel_data[2]["name"]
    /\ KPrecio("Privado", 2) \in DOMAIN results[1]

\* a calendar whose records all carry the price field
Priced(l) == \A j \in 1..Len(l) : "avgPriceFormatted" \in DOMAIN l[j]

\* C16 as stated: the record of a hotel whose page was fetched has no
\* hotel-level 'error' and both price lists (both queries were issued); a
\* price list is the days of a well-formed answer, and empty when the query
\* raised or its answer was malformed; when the lists are processed, a
\* hotel with one empty list and valid prices in the other has a row with
\* the fields of the other occupancy count.
C16_FailedQueryRecordedEmpty ==
    /\ \A i \in 1..Len(tasks) :
           (tasks[i].at = "returned" /\ ~PageFailed(i)) =>
               /\ "error" \notin DOMAIN tasks[i].hotel_info
               /\ {"price_2_adults", "price_1_adult"} \subseteq DOMAIN tasks[i].hotel_info
               /\ \A n \in Occupancies :
                      /\ Priced(tasks[i].hotel_info[KeyOf(n)])
                      /\ (KeyOf(n) \o "_error") \in DOMAIN tasks[i].hotel_info =>
                             tasks[i].hotel_info[KeyOf(n)] = <<>>
    /\ pc \in {"shown", "failed"} =>
           \A i \in 1..Len(hostels_data) : \A n \in Occupancies :
               (/\ ~PageFailed(i)
                /\ hostels_data[i][KeyOf(3 - n)] = <<>>
                /\ Priced(hostels_data[i][KeyOf(n)])
                /\ Usable(hostels_data[i][KeyOf(n)], selected_date) # {}) =>
                   \E j \in 1..Len(results) :
                       /\ results[j]["Nombre Hotel"] = hostel_data[i]["name"]
                       /\ KPrecio("Privado", n) \in DOMAIN results[j]
                       /\ KPrecio("Privado", 3 - n) \notin DOMAIN results[j]

\* C17 as stated: the batch is never aborted, and what is shown for a hotel
\* is what process_hostel_data gives for that hotel alone: its row, its
\* error entry, or nothing.
C17_OutcomeOwnDataOnly ==
    /\ pc # "failed"
    /\ pc = "shown" =>
           \A i \in 1..Len(hostels_data) :
               \A alone \in {process_hostel_data(<<hostels_data[i]>>, selected_date)} :
                   /\ ~alone.raised
                   /\ SelectSeq(results,
                           LAMBDA r : r["Nombre Hotel"] = hostel_data[i]["name"])
                          = alone.results
                   /\ SelectSeq(error_hostels,
                           LAMBDA h : h["name"] = hostel_data[i]["name"])
                          = alone.error_hostels

\* C18: when process_hostel_data raises, main reports the exception (the
\* two st.error lines of its one except clause, no success, no warning),
\* stores no result of the batch, and the content area shows what it showed
\* before the click: no row built before the exception appears.
C18_CaughtOnceNothingShown ==
    [][pc' = "failed" =>
           /\ messages' = <<"error", "error">>
           /\ Displayed' = Displayed
           /\ results' = <<>> /\ error_hostels' = <<>>
           /\ "error_hostels" \in DOMAIN session_state' =>
                  "error_hostels" \in DOMAIN session_state]_vars

\* C18 witness: the first hotel of the batch gave a row, the calendar of the
\* second one made process_hostel_data raise; the error is reported and
\* nothing is shown
C18_Witness ==
    /\ pc = "failed"
    /\ Len(hostels_data) = 2
    /\ Iteration(hostels_data[1], selected_date).kind = "row"
    /\ Iteration(hostels_data[2], selected_date).kind = "raise"
    /\ messages = <<"error", "error">>
    /\ Displayed = <<>>

\* C21: the margin and the net price of each side are the nearest hundredths
\* of 0.08 (x - 5.5 n) and 0.92 (x - 5.5 n) with x the unrounded
\* representative price (the unrounded mean) or the unrounded derived price,
\* not values computed from fields already rounded.  Private, 2 adults, mean
\* of 50, 70, 10 = 43.333...: net private 29.75 (29.74 from the rounded
\* 43.33), shared 34.67, net shared 21.77 (21.78 from the rounded 34.67).
C21_RoundedAtOutputOnly ==
    \A n \in Occupancies : \A side \in Sides :
        (After(n) /\ Recognised(hostel) /\ HasPrice(n)) =>
            LET num == ShortNum(n, side)
                den == ShortDen(n, side)
                P == PNum(ListOf(hostel, n), selected_date)
                K == PDen(ListOf(hostel, n), selected_date)
            IN  /\ Nearest(result[KInteres(side, n)], 2 * num, 25 * den)
                /\ Nearest(result[KSinTasa(side, n)], 23 * num, 25 * den)
                /\ (TypeOf(hostel) = "Privado" /\ n = 2 /\ 3 * P = 13000 * K) =>
                       /\ result[KPrecio("Privado", 2)] = 4333
                       /\ result[KSinTasa("Privado", 2)] = 2975
                       /\ result[KPrecio("Compartido", 2)] = 3467
                       /\ result[KSinTasa("Compartido", 2)] = 2177

\* C21 witness: a Private hotel whose prices of 2 adults over the range are
\* 50, 70 and 10, expanded from the mean 43.333...
C21_Witness ==
    /\ pc = "check"
    /\ selected_date = {}
    /\ TypeOf(hostel) = "Privado"
    /\ Len(ListOf(hostel, 2)) = 3
    /\ PDen(ListOf(hostel, 2), selected_date) = 3
    /\ PNum(ListOf(hostel, 2), selected_date) = 13000
    /\ result[KSinTasa("Privado", 2)] = 2975
    /\ result[KSinTasa("Compartido", 2)] = 2177

\* the list has an entry with price > 0.01 and none of them on the date
OffDate(l, sel) ==
    /\ sel # {}
    /\ \E j \in 1..Len(l) : ~IsSentinel(l[j])
    /\ Usable(l, sel) = {}

\* C22: with a selected date d, an occupancy count whose list has entries
\* with price > 0.01 but none dated d gets no field (none is set to 0), and
\* the hotel goes on to the next block and is appended to rows, unless the
\* other list is one that holds no price > 0.01 at all.
C22_OffDateKeepsRow ==
    /\ \A n \in Occupancies :
           (After(n) /\ OffDate(ListOf(hostel, n), selected_date)) =>
               DOMAIN FieldsOf(result, n) = {}
    /\ pc = "done" =>
           \A i \in 1..Len(hostels_data) :
               (/\ "error" \notin DOMAIN hostels_data[i]
                /\ \E n \in Occupancies : OffDate(ListOf(hostels_data[i], n), selected_date)
                /\ \A n \in Occupancies : ~NothingAvailable(ListOf(hostels_data[i], n)))
               => \E j \in 1..Len(results) :
                      /\ results[j]["Nombre Hotel"] = RowName(hostels_data[i])
                      /\ \A n \in Occupancies :
                             OffDate(ListOf(hostels_data[i], n), selected_date) =>
                                 DOMAIN FieldsOf(results[j], n) = {}

\* C22 witness: date 2 selected, a Shared hotel whose only price for 1 adult
\* is dated 1: its row is emitted with the note and without price fields
C22_Witness ==
    /\ pc = "done"
    /\ selected_date = {2}
    /\ TypeOf(hostels_data[1]) = "Compartido"
    /\ OffDate(ListOf(hostels_data[1], 1), selected_date)
    /\ Len(results) = 1
    /\ DOMAIN results[1] = {"Nombre Hotel", "Tipo", "URL", "Error"}

\* C23: on an empty list of hotels process_hostel_data goes through no
\* iteration and returns two empty lists.
C23_EmptyInput ==
    hostels_data = <<>> =>
        /\ pc \in {"loop", "done"}
        /\ results = <<>>
        /\ error_hostels = <<>>
        /\ result = <<>>

\* C23 witness: process_hostel_data has returned on the empty list
C23_Witness ==
    /\ hostels_data = <<>>
    /\ pc = "done"
    /\ results = <<>> /\ error_hostels = <<>>

\* the hotel a record returned by scrape_hostel is about
RecordOf(info) ==
    IF "original_name" \in DOMAIN info THEN info["original_name"] ELSE info["name"]

\* C24: whatever the order in which the coroutines returned, scrape_hotels
\* returns one record per hotel of the input, record i being the one that
\* hotel i's coroutine returned; the rows and the error list shown are the
\* ones of these records taken in input order, so they depend on what each
\* hotel's fetches gave and not on the interleaving.
C24_GatherInInputOrder ==
    pc \in {"process", "shown", "failed"} =>
        /\ Len(hostels_data) = Len(hostel_data)
        /\ Len(returned) = Len(hostel_data)
        /\ \A i \in 1..Len(hostel_data) : \E k \in 1..Len(returned) : returned[k] = i
        /\ \A i \in 1..Len(hostel_data) :
               /\ RecordOf(hostels_data[i]) = hostel_data[i]["name"]
               /\ hostels_data[i] = tasks[i].hotel_info
        /\ pc = "shown" =>
               \A out \in {process_hostel_data(
                               [i \in 1..Len(tasks) |-> tasks[i].hotel_info],
                               selected_date)} :
                   /\ results = out.results
                   /\ error_hostels = out.error_hostels

\* C24 witness: the second hotel's coroutine returned first (its page fetch
\* failed), the first hotel's later with prices; the records are in input
\* order and the lists are shown
C24_Witness ==
    /\ pc = "shown"
    /\ returned = <<2, 1>>
    /\ "error" \in DOMAIN hostels_data[2]
    /\ "price_1_adult" \in DOMAIN hostels_data[1]
    /\ Len(results) = 1 /\ Len(error_hostels) = 1
    /\ results[1]["Nombre Hotel"] = hostel_data[1]["name"]
    /\ error_hostels[1]["name"] = hostel_data[2]["name"]

\* a hotel that leaves no trace: no fetch error, and a price list that is
\* not empty and holds no entry with price > 0.01
LeavesNoTrace(h) ==
    /\ "error" \notin DOMAIN h
    /\ \E n \in Occupancies : NothingAvailable(ListOf(h, n))

\* C25: of the hotels gone through so far, each has at most one entry in the
\* rows and the error list together (never one in each), and the two lists
\* together have as many entries as hotels gone through less the hotels
\* without fetch error that have a non-empty price list with no entry
\* > 0.01.
C25_OneEntryOrNone ==
    pc \in {"loop", "done"} =>
        /\ \A i \in 1..Len(hostels_data) :
               Cardinality({j \in 1..Len(results) :
                               results[j]["Nombre Hotel"] = RowName(hostels_data[i])})
               + Cardinality({j \in 1..Len(error_hostels) :
                                 error_hostels[j] = hostels_data[i]})
               <= 1
        /\ Len(results) + Len(error_hostels) =
               (idx - 1) - Cardinality({i \in 1..(idx - 1) : LeavesNoTrace(hostels_data[i])})

\* C25 witness: a batch of two hotels was gone through; the first has only
\* unavailable prices and left no entry, the second has its row
C25_Witness ==
    /\ pc = "done"
    /\ Len(hostels_data) = 2
    /\ LeavesNoTrace(hostels_data[1])
    /\ error_hostels = <<>>
    /\ Len(results) = 1
    /\ results[1]["Nombre Hotel"] = RowName(hostels_data[2])

\* the end of an iteration appends the hotel's row, and only that; every row
\* says 'Error' exactly when it has no field starting with 'Precio', and no
\* row is a record of the error list
AppendsCheckedRow ==
    /\ pc = "check" =>
           /\ Len(results') = Len(results) + 1
           /\ SubSeq(results', 1, Len(results)) = results
           /\ results'[Len(results')]["Nombre Hotel"] = RowName(hostel)
           /\ error_hostels' = error_hostels
    /\ \A j \in 1..Len(results') :
           /\ "Error" \in DOMAIN results'[j] <=> DOMAIN results'[j] \cap PrecioKeys = {}
           /\ "Error" \in DOMAIN results'[j] =>
                  results'[j]["Error"] = "No pricing data available for this hostel"
           /\ "error" \notin DOMAIN results'[j]
           /\ \A k \in 1..Len(error_hostels') :
                  RowName(error_hostels'[k]) # results'[j]["Nombre Hotel"]

\* C26: every hotel without fetch error that reaches the end of its
\* iteration is appended to the rows; a row has the field 'Error' if and only
\* if it has no field starting with 'Precio', and a row with 'Error' is in
\* the rows, not in the error list.
C26_ErrorNoteIffNoPrecio == [][AppendsCheckedRow]_vars

\* C26 witness: a batch of two hotels ended with two rows, the first with
\* the note and no price field, the second with price fields and no note
C26_Witness ==
    /\ pc = "done"
    /\ Len(results) = 2
    /\ error_hostels = <<>>
    /\ "Error" \in DOMAIN results[1]
    /\ DOMAIN results[1] \cap PrecioKeys = {}
    /\ "Error" \notin DOMAIN results[2]
    /\ KPrecio("Privado", 2) \in DOMAIN results[2]

\* the seven amounts of occupancy count n
AmountKeys(n) ==
    {KTasa(n)} \cup UNION {{KPrecio(sd, n), KSinTasa(sd, n), KInteres(sd, n)} : sd \in Sides}

\* a row holds the seven amounts of n and one flag, or no field of n
AllOrNothing(row, n) ==
    \/ DOMAIN FieldsOf(row, n) = {}
    \/ /\ AmountKeys(n) \subseteq DOMAIN row
       /\ Cardinality({sd \in Sides : KCalculado(sd, n) \in DOMAIN row}) = 1
       /\ Cardinality(DOMAIN FieldsOf(row, n)) = 8

\* C27: in every emitted row, and in the row of the current hotel between
\* blocks, the fields of an occupancy count n are all there (private and
\* shared price, net private and net shared, tourist tax, private and shared
\* margin, and exactly one derived flag) or none of them is.
C27_FieldsAllOrNothing ==
    /\ \A j \in 1..Len(results) : \A n \in Occupancies : AllOrNothing(results[j], n)
    /\ pc \in {"adults1", "check"} => \A n \in Occupancies : AllOrNothing(result, n)

\* C27 witness: an emitted row of a Hybrid hotel with the eight fields of
\* 2 adults and none of 1 adult
C27_Witness ==
    /\ pc = "done"
    /\ Len(results) = 1
    /\ results[1]["Tipo"] = "Híbrido"
    /\ Cardinality(DOMAIN FieldsOf(results[1], 2)) = 8
    /\ DOMAIN FieldsOf(results[1], 1) = {}

PriceKeys == {"price_2_adults", "price_1_adult"}

PriceErrorKeys == {"price_2_adults_error", "price_1_adult_error"}

\* the two shapes of a record returned by scrape_hostel
ErrorXorPrices(r) ==
    /\ IF "error" \in DOMAIN r
       THEN DOMAIN r \cap (PriceKeys \cup PriceErrorKeys) = {}
       ELSE PriceKeys \subseteq DOMAIN r
    /\ \A key \in PriceKeys :
           (key \o "_error") \in DOMAIN r => (key \in DOMAIN r /\ r[key] = <<>>)

\* C28: a record returned by a hotel's coroutine, and so every record of the
\* list scrape_hotels returns, has 'error' and no price key, or no 'error'
\* and both price lists; a price query that failed left its message under
\* 'price_2_adults_error' or 'price_1_adult_error' next to an empty list,
\* and a record still being built never has 'error'.
C28_ErrorXorPriceLists ==
    /\ \A i \in 1..Len(tasks) :
           /\ tasks[i].at = "returned" => ErrorXorPrices(tasks[i].hotel_info)
           /\ tasks[i].at \in {"prices2", "prices1"} =>
                  "error" \notin DOMAIN tasks[i].hotel_info
    /\ \A i \in 1..Len(hostels_data) :
           pc \in {"process", "shown", "failed"} => ErrorXorPrices(hostels_data[i])

\* C28 witness: scrape_hotels returned two records: the first of a hotel
\* whose query for 2 adults failed and whose query for 1 adult gave a
\* calendar, the second of a hotel without URL
C28_Witness ==
    /\ pc = "process"
    /\ Len(hostels_data) = 2
    /\ "price_2_adults_error" \in DOMAIN hostels_data[1]
    /\ "error" \notin DOMAIN hostels_data[1]
    /\ hostels_data[1]["price_2_adults"] = <<>>
    /\ hostels_data[1]["price_1_adult"] # <<>>
    /\ DOMAIN hostels_data[2] = {"name", "type", "url", "error"}

\* in a row with price fields of n, private is not below shared
PrivateNotBelowShared(row, n) ==
    KPrecio("Privado", n) \in DOMAIN row =>
        /\ row[KPrecio("Privado", n)] >= row[KPrecio("Compartido", n)]
        /\ row[KSinTasa("Privado", n)] >= row[KSinTasa("Compartido", n)]

\* C29: in every emitted row (and in the row of the current hotel after a
\* block), for each occupancy count with price fields, the private price is
\* at least the shared price and the net private price at least the net
\* shared price, whatever the category and the representative price.
C29_PrivateNotBelowShared ==
    /\ \A j \in 1..Len(results) : \A n \in Occupancies :
           PrivateNotBelowShared(results[j], n)
    /\ \A n \in Occupancies : After(n) => PrivateNotBelowShared(result, n)

\* C29 witness: an emitted row of a Hybrid hotel with price 10.95 for
\* 1 adult: shared 10.95, private 13.14, net shared 5.01, net private 7.03
C29_Witness ==
    /\ pc = "done"
    /\ Len(results) = 1
    /\ results[1]["Tipo"] = "Hibrido"
    /\ KPrecio("Compartido", 1) \in DOMAIN results[1]
    /\ results[1][KPrecio("Compartido", 1)] = 1095
    /\ results[1][KPrecio("Privado", 1)] = 1314
    /\ results[1][KSinTasa("Compartido", 1)] = 501
    /\ results[1][KSinTasa("Privado", 1)] = 703

\* the days a query must ask for, from the widgets as validated
DaysAsked(option, start, end) ==
    IF option = "Single Day" THEN 1
    ELSE LET span == (CHOOSE e \in end : TRUE) - start + 1
         IN  IF span < 30 THEN span ELSE 30

\* a step of a click keeps the dates right: the validation replaces an end
\* date before the start by the start and no other, 'Single Day' has no end
\* date, and every price query issued asks for DaysAsked days, between 1
\* and 30
DatesStep ==
    /\ pc = "dates" =>
           IF date_option = "Single Day"
           THEN end_date' = {}
           ELSE \E picked \in end_date :
                    end_date' = IF picked < start_date THEN {start_date} ELSE {picked}
    /\ pc # "dates" => end_date' = end_date
    /\ \A q \in requests' :
           /\ q.amountOfDays \in 1..30
           /\ q.amountOfDays = DaysAsked(date_option, start_date, end_date')
    /\ \A i \in 1..Len(tasks') : \A n \in Occupancies :
           KeyOf(n) \in DOMAIN tasks'[i].hotel_info =>
               \E q \in requests' : q.hotel = i /\ q.nbAdults = n

\* C30: every price query of a click asks for a number of days between 1
\* and 30: 1 on 'Single Day' (no end date), and otherwise the days from the
\* start date to the end date, both included, or 30 when these are more,
\* the end date being the start date when the one picked was earlier.
C30_AmountOfDays == [][DatesStep]_vars

\* C30 witness: a range whose end date was picked two days before the start
\* date: the sidebar reported it, and both queries of the hotel asked for
\* 1 day
C30_Witness ==
    /\ date_option = "Date Range"
    /\ sidebar = <<"error">>
    /\ end_date = {start_date}
    /\ requests = {[hotel |-> 1, nbAdults |-> n, amountOfDays |-> 1] : n \in {1, 2}}
    /\ pc = "shown"

\* a range longer than 30 days was asked for as 30 days
C30_Capped ==
    /\ end_date = {start_date + 31}
    /\ \E q \in requests : q.amountOfDays = 30

====
